---------------------------- MODULE Spec2Model ----------------------------
(***************************************************************************)
(* nlp2sql: the generate -> judge -> repair loop of the web front end      *)
(* (app/webapp.py), the SQL generator's completion handling and            *)
(* postprocessing (agent/nlp2sql_agent.py) and the SQL judge               *)
(* (agent/sql_judge_agent.py).                                             *)
(*                                                                         *)
(* Eight specifications share the module:                                  *)
(*   Spec      generate_sql_with_validation, one request                   *)
(*   SpecGen   Nlp2SqlAgent._generate_sql_for_query, one completion        *)
(*   SpecJudge the methods of SqlJudgeAgent, one call each                 *)
(*   SpecAgent Nlp2SqlAgent.run, one call                                  *)
(*   SpecText  the assembly of a completion's text from its fragments      *)
(*   SpecWeb   generate_sql_with_validation, requests served concurrently  *)
(*   SpecLayers the layered SqlJudgeAgent.run and _execution_check         *)
(*   SpecEnd   one request to a web endpoint and its DB object             *)
(*                                                                         *)
(* Texts are sequences of one-character strings; Python's None is the      *)
(* string None.                                                            *)
(***************************************************************************)
EXTENDS Integers, Sequences, FiniteSets, TLC

VARIABLES
    \* ---- generate_sql_with_validation (webapp.py:175-197) ----
    pc,          \* position in the function
    round,       \* completed passes of `for _ in range(3)`
    sql,         \* local `sql`: the value nlp_agent.run returned last
    fix,         \* local `fix`
    iterations,  \* local `iterations`
    last_judge,  \* local `last_judge`
    ret,         \* the dictionary returned, NoReturn before the return
    genCalls,    \* history: <<[fix_suggestion, out]>> of the nlp_agent.run calls
    judgeCalls,  \* history: <<[sql, verdict]>> of the judge_agent.run calls
    executed,    \* SQL texts nlp_agent.run passed to conn.execute_query
    argsOk,      \* user_query, db_name and table_name are all non-empty
    \* ---- Nlp2SqlAgent._generate_sql_for_query (nlp2sql_agent.py:376-394) ----
    gpc,         \* position: consuming the completion, postprocessing, done
    sql_text,    \* local `sql_text` of _get_last_llm_output
    gn,          \* fragments received from the completion gateway so far
    graised,     \* the gateway raised while it was being consumed
    gresult,     \* what _get_last_llm_output returned
    gout,        \* what _generate_sql_for_query returned
    gescaped,    \* an exception left _generate_sql_for_query
    \* ---- SqlJudgeAgent, one method call (sql_judge_agent.py) ----
    jcall,       \* the method called, "idle" before the call
    jllm,        \* self.llm_assistant is configured
    jgw,         \* what the completion gateway does when it is asked
    jret,        \* what the call returned
    \* ---- Nlp2SqlAgent.run (nlp2sql_agent.py:396-450) ----
    apc,               \* position in run
    user_args_ok,      \* user_nl, database, table and conn are all given
    fix_suggestion,    \* argument fix_suggestion
    execute,           \* argument execute: "omitted", "true" or "false"
    limit,             \* parameter limit of _fetch_column_distincts
    plan,              \* local `plan`
    columns,           \* number of columns of schema["columns"]
    col_distincts,     \* the profiles _fetch_column_distincts built, in column order
    idx,               \* sub-questions handled by the loop at line 425
    sql_sequence,      \* local `sql_sequence`
    execution_results, \* local `execution_results`
    last,              \* self.last_plan, last_sql_sequence, last_execution_results
    aret,              \* what run returned
    probes,            \* history: per probed column, its distinct count and the executor's outcome
    hints,             \* history: the fix_suggestion each _generate_sql_for_query call got
    execs,             \* history: the executor's outcome for each executed step
    \* ---- _get_last_llm_output / _get_last_text, one completion ----
    tpc,         \* the gateway is delivering, or the function has returned
    tfrags,      \* the fragments the gateway has delivered, in arrival order
    tcall,       \* the function that consumed them
    traised,     \* the gateway raised instead of ending
    tret,        \* the text the function returned
    \* ---- two web requests in generate_sql_with_validation (webapp.py:140-197) ----
    SINGLETON,   \* the module globals LLM_SINGLETON, TEXT2SQL_SINGLETON, SQL_JUDGE_SINGLETON
    wpc,         \* per request: the function it is in and its position there
    wlocal,      \* per request: what the test of a global saw, and its nlp_agent and judge_agent
    wruns,       \* per request: nlp_agent.run calls made
    last_plan,   \* per agent object: the request whose plan self.last_plan holds
    gaccess,     \* history: reads and writes of the module globals
    faccess,     \* history: writes of the last_* fields of agent objects
    \* ---- the layered SqlJudgeAgent.run and _execution_check (sql_judge_agent.py:273-481) ----
    lcall,           \* the function called: "run" or "_execution_check"
    lpc,             \* position in it
    sql_generated,   \* argument sql_generated (sql of _execution_check)
    db,              \* argument db is an executor (has execute_query)
    syntax_info,     \* local syntax_info, NoVerdict before its assignment
    semantic_info,   \* local semantic_info
    sql2nl_info,     \* local sql2nl_info
    embedding_info,  \* local embedding_info
    execution_info,  \* local execution_info
    xresult,         \* local result of _execution_check
    xcalls,          \* history: the statements passed to db.execute_query
    lret,            \* what the call returned
    \* ---- one request to an endpoint of the web front end, and its DB object ----
    endpoint,    \* the endpoint serving the request
    epc,         \* position in the endpoint
    connection,  \* DB.connection of the request's db: None or a connection
    live,        \* connections the database server holds open
    loop_res,    \* what generate_sql_with_validation returned to the endpoint
    dbcalls,     \* history: the calls of db's methods, with state before and outcome
    response     \* the kind of response returned

loopVars == <<pc, round, sql, fix, iterations, last_judge, ret, genCalls,
              judgeCalls, executed, argsOk>>
genVars == <<gpc, sql_text, gn, graised, gresult, gout, gescaped>>
judgeVars == <<jcall, jllm, jgw, jret>>
agentVars == <<apc, user_args_ok, fix_suggestion, execute, limit, plan, columns,
               col_distincts, idx, sql_sequence, execution_results, last, aret,
               probes, hints, execs>>
textVars == <<tpc, tfrags, tcall, traised, tret>>
webVars == <<SINGLETON, wpc, wlocal, wruns, last_plan, gaccess, faccess>>
layerVars == <<lcall, lpc, sql_generated, db, syntax_info, semantic_info, sql2nl_info,
               embedding_info, execution_info, xresult, xcalls, lret>>
endVars == <<endpoint, epc, connection, live, loop_res, dbcalls, response>>
vars == <<loopVars, genVars, judgeVars, agentVars, textVars, webVars, layerVars, endVars>>

\* The variables outside one specification's own group.
notLoop == <<genVars, judgeVars, agentVars, textVars, webVars, layerVars, endVars>>
notGen == <<loopVars, judgeVars, agentVars, textVars, webVars, layerVars, endVars>>
notJudge == <<loopVars, genVars, agentVars, textVars, webVars, layerVars, endVars>>
notAgent == <<loopVars, genVars, judgeVars, textVars, webVars, layerVars, endVars>>
notText == <<loopVars, genVars, judgeVars, agentVars, webVars, layerVars, endVars>>
notWeb == <<loopVars, genVars, judgeVars, agentVars, textVars, layerVars, endVars>>
notLayer == <<loopVars, genVars, judgeVars, agentVars, textVars, webVars, endVars>>
notEnd == <<loopVars, genVars, judgeVars, agentVars, textVars, webVars, layerVars>>

None == "None"

(***************************************************************************)
(* Bounds of the model.                                                    *)
(***************************************************************************)
NumSql == 2         \* distinct SQL texts the generator may produce in the loop
MaxFragments == 3   \* fragments one completion delivers at most
MaxTextLen == 5     \* characters (delimiters included) one completion accumulates at most
MaxJsonLen == 4     \* tokens of one completion the judge receives at most

(***************************************************************************)
(* generate_sql_with_validation                                            *)
(***************************************************************************)
MaxRounds == 3      \* `for _ in range(3)`

GenSql == 1 .. NumSql
ExecResults == {"rows", None}   \* DB.execute_query: the rows, or None on error
FixHints == {"", "fixA", "fixB"}

\* What Nlp2SqlAgent.run returns when execute is true, as it is by default:
\* the dictionary of a one-step plan whose SQL s was executed with result r.
RunReturn(s, r) ==
    [plan |-> <<"q">>, sql_sequence |-> <<s>>, results |-> <<r>>, final_result |-> r]

\* What it returns when an argument is missing (the early return).
RunReturnEmpty ==
    [plan |-> <<>>, sql_sequence |-> <<>>, results |-> <<>>, final_result |-> None]

\* The dictionaries judge_agent.run may hand to the loop; fix_suggestion is
\* None when the completion's JSON carried null for it.
JudgeReplies ==
    { [valid |-> v, reason |-> IF v THEN "ok" ELSE "bad", fix_suggestion |-> f,
       need_regenerate |-> ~v] : v \in BOOLEAN, f \in FixHints \cup {None} }

NoReturn == [returned |-> FALSE]

\* last_judge = None, before the first verdict
NoVerdict == [none |-> TRUE]

\* Mutant: the entry is the verdict alone, the candidate is not recorded.
IterationEntry_withoutSql(jr, s) == jr

\* it = dict(jr); it["sql"] = sql
IterationEntry(jr, s) ==
    [k \in (DOMAIN jr) \cup {"sql"} |-> IF k = "sql" THEN s ELSE jr[k]]

\* jr.get("fix_suggestion") or ""
NextFix(jr) ==
    IF "fix_suggestion" \in DOMAIN jr /\ jr.fix_suggestion # None
    THEN jr.fix_suggestion ELSE ""

\* Mutant: the result reports success whatever the last verdict was.
LoopResult_alwaysOk(ok, s, its, lj) ==
    [returned |-> TRUE, ok |-> TRUE, sql |-> s, iterations |-> its, last_judge |-> lj]

LoopResult(ok, s, its, lj) ==
    [returned |-> TRUE, ok |-> ok, sql |-> s, iterations |-> its, last_judge |-> lj]

\* nlp_agent.run(user_nl=..., database=..., table=..., conn=db, fix_suggestion=hint)
\* with execute left at its default: the SQL is generated and executed.
NlpAgentRun(hint) ==
    \/ /\ argsOk
       /\ \E s \in GenSql, r \in ExecResults :
            /\ sql' = RunReturn(s, r)
            /\ executed' = executed \cup {s}
            /\ genCalls' = Append(genCalls, [fix_suggestion |-> hint, out |-> RunReturn(s, r)])
    \/ /\ ~argsOk
       /\ sql' = RunReturnEmpty
       /\ executed' = executed
       /\ genCalls' = Append(genCalls, [fix_suggestion |-> hint, out |-> RunReturnEmpty])

\* line 184: the first candidate, generated with fix = None
LoopGenerateFirst ==
    /\ pc = "start"
    /\ NlpAgentRun(fix)
    /\ pc' = "judge"
    /\ UNCHANGED <<round, fix, iterations, last_judge, ret, judgeCalls, argsOk>>
    /\ UNCHANGED notLoop

\* Mutant: the early return on acceptance is missing.
Accepts_never(jr) == FALSE

\* Whether the loop body leaves the function after the verdict jr (line 193).
Accepts(jr) == "valid" \in DOMAIN jr /\ jr.valid = TRUE

\* Mutant: once a suggestion is stored, later verdicts do not replace it.
LoopJudge_keepsOlderHint ==
    /\ pc = "judge"
    /\ \E jr \in JudgeReplies :
         LET its == Append(iterations, IterationEntry(jr, sql)) IN
         /\ judgeCalls' = Append(judgeCalls, [sql |-> sql, verdict |-> jr])
         /\ iterations' = its
         /\ last_judge' = jr
         /\ IF Accepts(jr)
            THEN /\ ret' = LoopResult(TRUE, sql, its, jr)
                 /\ pc' = "done"
                 /\ fix' = fix
            ELSE /\ ret' = ret
                 /\ pc' = "regenerate"
                 /\ fix' = IF fix = None THEN NextFix(jr) ELSE fix
    /\ UNCHANGED <<round, sql, genCalls, executed, argsOk>>
    /\ UNCHANGED notLoop

\* lines 187-194: judge the candidate, record it, return on acceptance
LoopJudge ==
    /\ pc = "judge"
    /\ \E jr \in JudgeReplies :
         LET its == Append(iterations, IterationEntry(jr, sql)) IN
         /\ judgeCalls' = Append(judgeCalls, [sql |-> sql, verdict |-> jr])
         /\ iterations' = its
         /\ last_judge' = jr
         /\ IF Accepts(jr)
            THEN /\ ret' = LoopResult(TRUE, sql, its, jr)
                 /\ pc' = "done"
                 /\ fix' = fix
            ELSE /\ ret' = ret
                 /\ pc' = "regenerate"
                 /\ fix' = NextFix(jr)
    /\ UNCHANGED <<round, sql, genCalls, executed, argsOk>>
    /\ UNCHANGED notLoop

\* Mutant: the loop makes one pass more than the budget (range(4)).
LoopRegenerate_onePassMore ==
    /\ pc = "regenerate"
    /\ NlpAgentRun(fix)
    /\ round' = round + 1
    /\ pc' = IF round + 1 < MaxRounds + 1 THEN "judge" ELSE "exhausted"
    /\ UNCHANGED <<fix, iterations, last_judge, ret, judgeCalls, argsOk>>
    /\ UNCHANGED notLoop

\* lines 195-196: regenerate with the verdict's suggestion; next pass of the loop
LoopRegenerate ==
    /\ pc = "regenerate"
    /\ NlpAgentRun(fix)
    /\ round' = round + 1
    /\ pc' = IF round + 1 < MaxRounds THEN "judge" ELSE "exhausted"
    /\ UNCHANGED <<fix, iterations, last_judge, ret, judgeCalls, argsOk>>
    /\ UNCHANGED notLoop

\* line 197: the budget is used up
LoopReturnExhausted ==
    /\ pc = "exhausted"
    /\ ret' = LoopResult(FALSE, sql, iterations, last_judge)
    /\ pc' = "done"
    /\ UNCHANGED <<round, sql, fix, iterations, last_judge, genCalls, judgeCalls,
                   executed, argsOk>>
    /\ UNCHANGED notLoop

LoopIdle ==
    /\ pc = "idle"
    /\ round = 0
    /\ sql = RunReturnEmpty
    /\ fix = None
    /\ iterations = <<>>
    /\ last_judge = NoVerdict
    /\ ret = NoReturn
    /\ genCalls = <<>>
    /\ judgeCalls = <<>>
    /\ executed = {}
    /\ argsOk = TRUE

GenIdle ==
    /\ gpc = "idle"
    /\ sql_text = <<>>
    /\ gn = 0
    /\ graised = FALSE
    /\ gresult = <<>>
    /\ gout = <<>>
    /\ gescaped = FALSE

JudgeIdle ==
    /\ jcall = "idle"
    /\ jllm = FALSE
    /\ jgw = [raises |-> FALSE, frags |-> <<>>]
    /\ jret = NoReturn

AgentIdle ==
    /\ apc = "idle"
    /\ user_args_ok = TRUE
    /\ fix_suggestion = None
    /\ execute = "omitted"
    /\ limit = 0
    /\ plan = <<>>
    /\ columns = 0
    /\ col_distincts = <<>>
    /\ idx = 0
    /\ sql_sequence = <<>>
    /\ execution_results = <<>>
    /\ last = [last_plan |-> None, last_sql_sequence |-> None,
               last_execution_results |-> None]
    /\ aret = NoReturn
    /\ probes = <<>>
    /\ hints = <<>>
    /\ execs = <<>>

TextIdle ==
    /\ tpc = "idle"
    /\ tfrags = <<>>
    /\ tcall = None
    /\ traised = FALSE
    /\ tret = <<>>

WebIdle ==
    /\ SINGLETON = <<>>
    /\ wpc = <<>>
    /\ wlocal = <<>>
    /\ wruns = <<>>
    /\ last_plan = <<>>
    /\ gaccess = {}
    /\ faccess = {}

LayersIdle ==
    /\ lcall = "idle"
    /\ lpc = "idle"
    /\ sql_generated = <<>>
    /\ db = FALSE
    /\ syntax_info = NoVerdict
    /\ semantic_info = NoVerdict
    /\ sql2nl_info = NoVerdict
    /\ embedding_info = NoVerdict
    /\ execution_info = NoVerdict
    /\ xresult = None
    /\ xcalls = <<>>
    /\ lret = NoReturn

EndIdle ==
    /\ endpoint = None
    /\ epc = "idle"
    /\ connection = None
    /\ live = 0
    /\ loop_res = NoReturn
    /\ dbcalls = <<>>
    /\ response = None

Init ==
    /\ pc = "start"
    /\ round = 0
    /\ sql = RunReturnEmpty
    /\ fix = None
    /\ iterations = <<>>
    /\ last_judge = NoVerdict
    /\ ret = NoReturn
    /\ genCalls = <<>>
    /\ judgeCalls = <<>>
    /\ executed = {}
    /\ argsOk \in BOOLEAN
    /\ GenIdle
    /\ JudgeIdle
    /\ AgentIdle
    /\ TextIdle
    /\ WebIdle
    /\ LayersIdle
    /\ EndIdle

Next ==
    \/ LoopGenerateFirst
    \/ LoopJudge
    \/ LoopRegenerate
    \/ LoopReturnExhausted

Spec == Init /\ [][Next]_vars

(***************************************************************************)
(* Texts.  A text is a sequence of characters.  "a" stands for any         *)
(* character without a role, "T" for the backtick-quoted table name        *)
(* `table`, "D" for the qualifier `database`. of the target database, and  *)
(* DELIM for the sentinel "\n<CHUNK_END>\n" as a whole.                    *)
(***************************************************************************)
Char == {"a", ";", " ", "T", "D"}
DELIM == "|"

TextsUpTo(n) == UNION { [1 .. k -> Char] : k \in 0 .. n }

Min(S) == CHOOSE x \in S : \A y \in S : x <= y
Max(S) == CHOOSE x \in S : \A y \in S : x >= y

Contains(t, c) == \E i \in 1 .. Len(t) : t[i] = c

\* str.strip(): blanks and line breaks ("n") go
Strip(t) ==
    LET keep == { i \in 1 .. Len(t) : t[i] \notin {" ", "n"} }
    IN IF keep = {} THEN <<>> ELSE SubSeq(t, Min(keep), Max(keep))

\* str.split(DELIM)
RECURSIVE SplitOnDelim(_)
SplitOnDelim(t) ==
    IF ~Contains(t, DELIM) THEN <<t>>
    ELSE LET i == Min({ j \in 1 .. Len(t) : t[j] = DELIM })
         IN <<SubSeq(t, 1, i - 1)>> \o SplitOnDelim(SubSeq(t, i + 1, Len(t)))

(***************************************************************************)
(* Completion fragments: a plain string, a dictionary with content and     *)
(* reasoning_content (an absent, None or empty field is the empty text), a *)
(* list (or another iterable) of strings and dictionaries, or an object    *)
(* that is none of these.                                                  *)
(***************************************************************************)
StrFrag(t) == [kind |-> "str", text |-> t]
DictFrag(c, r) == [kind |-> "dict", content |-> c, reasoning_content |-> r]
ListFrag(items) == [kind |-> "list", items |-> items]
OtherFrag == [kind |-> "other"]

SimpleFragments(n) ==
    { StrFrag(t) : t \in TextsUpTo(n) }
      \cup { DictFrag(c, r) : c \in TextsUpTo(n), r \in TextsUpTo(1) }

\* The fragments whose text fits into n more characters of sql_text.
Fragments(n) ==
    SimpleFragments(n)
      \cup { ListFrag(<<f>>) : f \in SimpleFragments(1) }
      \cup { ListFrag(<<StrFrag(t), StrFrag(u)>>) : t, u \in TextsUpTo(1) }
      \cup { OtherFrag }

\* item.get("content", "") or item.get("reasoning_content", "")
DictPart(f) == IF f.content # <<>> THEN f.content ELSE f.reasoning_content

\* What one str or dict item adds to the text: `part + DELIM`, a dict only
\* when its part is non-empty.
ItemAdds(f) ==
    IF f.kind = "str" THEN f.text \o <<DELIM>>
    ELSE IF f.kind = "dict"
         THEN (IF DictPart(f) # <<>> THEN DictPart(f) \o <<DELIM>> ELSE <<>>)
         ELSE <<>>

RECURSIVE ItemsAdd(_)
ItemsAdd(items) ==
    IF items = <<>> THEN <<>> ELSE ItemAdds(Head(items)) \o ItemsAdd(Tail(items))

\* The body of `for chunk in assistant.run(...)`: what one chunk adds.
ChunkAdds(chunk) ==
    IF chunk.kind = "list" THEN ItemsAdd(chunk.items) ELSE ItemAdds(chunk)

\* Mutant: the first piece is taken instead of the last.
LastNonEmptyPiece_first(text) ==
    IF Contains(text, DELIM)
    THEN LET stripped == [i \in 1 .. Len(SplitOnDelim(text)) |-> Strip(SplitOnDelim(text)[i])]
             parts == SelectSeq(stripped, LAMBDA q : q # <<>>)
         IN IF parts # <<>> THEN parts[1] ELSE <<>>
    ELSE Strip(text)

\* After the loop: the last non-empty stripped piece of the text.
LastNonEmptyPiece(text) ==
    IF Contains(text, DELIM)
    THEN LET stripped == [i \in 1 .. Len(SplitOnDelim(text)) |-> Strip(SplitOnDelim(text)[i])]
             parts == SelectSeq(stripped, LAMBDA q : q # <<>>)
         IN IF parts # <<>> THEN parts[Len(parts)] ELSE <<>>
    ELSE Strip(text)

\* `if ";" in result`: cut after the last semicolon, then strip.
TruncateAtLastSemicolon(result) ==
    IF Contains(result, ";")
    THEN Strip(SubSeq(result, 1, Max({ i \in 1 .. Len(result) : result[i] = ";" })))
    ELSE result

\* Mutant: the handler hands the exception on to the caller.
OnGatewayError_reraise == [result |-> <<>>, escaped |-> TRUE]

\* `except Exception as e: print(...); return ""`
OnGatewayError == [result |-> <<>>, escaped |-> FALSE]

EndsWith(t, c) == t # <<>> /\ t[Len(t)] = c

\* Mutant: the test for an already qualified reference is missing.
HasQualifiedTable_never(t) == FALSE

\* f"`{database}`.`{table}`" in sql
HasQualifiedTable(t) == \E i \in 1 .. Len(t) - 1 : t[i] = "D" /\ t[i + 1] = "T"

\* sql.replace(f"`{table}`", target)
RECURSIVE QualifyAll(_)
QualifyAll(t) ==
    IF t = <<>> THEN <<>>
    ELSE (IF Head(t) = "T" THEN <<"D", "T">> ELSE <<Head(t)>>) \o QualifyAll(Tail(t))

PostprocessSql(text) ==
    IF text = <<>> THEN <<>>
    ELSE LET stripped == Strip(text)
             ended == IF EndsWith(stripped, ";") THEN stripped ELSE stripped \o <<";">>
         IN IF Contains(ended, "T") /\ ~HasQualifiedTable(ended)
            THEN QualifyAll(ended) ELSE ended

(***************************************************************************)
(* _generate_sql_for_query: the completion is consumed fragment by         *)
(* fragment by _get_last_llm_output, then postprocessed.                   *)
(***************************************************************************)
\* One pass of `for chunk in assistant.run(messages=messages, stream=stream)`
GwFragment ==
    /\ gpc = "consume"
    /\ gn < MaxFragments
    /\ \E chunk \in Fragments(MaxTextLen - Len(sql_text) - 1) :
         /\ Len(sql_text) + Len(ChunkAdds(chunk)) <= MaxTextLen
         /\ sql_text' = sql_text \o ChunkAdds(chunk)
    /\ gn' = gn + 1
    /\ UNCHANGED <<gpc, graised, gresult, gout, gescaped>>
    /\ UNCHANGED notGen

\* The gateway raises instead of delivering its next fragment.
GwRaise ==
    /\ gpc = "consume"
    /\ graised' = TRUE
    /\ gresult' = OnGatewayError.result
    /\ gescaped' = OnGatewayError.escaped
    /\ gpc' = IF OnGatewayError.escaped THEN "done" ELSE "post"
    /\ UNCHANGED <<sql_text, gn, gout>>
    /\ UNCHANGED notGen

\* The gateway has no more fragments: lines 65-76.
GwEnd ==
    /\ gpc = "consume"
    /\ gresult' = TruncateAtLastSemicolon(LastNonEmptyPiece(sql_text))
    /\ gpc' = "post"
    /\ UNCHANGED <<sql_text, gn, graised, gout, gescaped>>
    /\ UNCHANGED notGen

\* line 394: return self._postprocess_sql(sql, database, table)
GenPostprocess ==
    /\ gpc = "post"
    /\ gout' = PostprocessSql(gresult)
    /\ gpc' = "done"
    /\ UNCHANGED <<sql_text, gn, graised, gresult, gescaped>>
    /\ UNCHANGED notGen

InitGen ==
    /\ LoopIdle
    /\ JudgeIdle
    /\ AgentIdle
    /\ TextIdle
    /\ WebIdle
    /\ LayersIdle
    /\ EndIdle
    /\ gpc = "consume"
    /\ sql_text = <<>>
    /\ gn = 0
    /\ graised = FALSE
    /\ gresult = <<>>
    /\ gout = <<>>
    /\ gescaped = FALSE

NextGen ==
    \/ GwFragment
    \/ GwRaise
    \/ GwEnd
    \/ GenPostprocess

SpecGen == InitGen /\ [][NextGen]_vars


(***************************************************************************)
(* SqlJudgeAgent.  The completion the judge receives is a text of tokens:  *)
(* "{" and "}", "#" for a code-fence line, "x" for anything that is not    *)
(* JSON, and one token per member of a JSON object:                        *)
(*   V1 V0  "valid": true / false                                          *)
(*   N1 N0  "need_regenerate": true / false                                *)
(*   S1 S0  "semantic_valid": true / false                                 *)
(*   R      "semantic_reason": "r"                                         *)
(*   E      "sql_nl_explanation": "e"                                      *)
(*   F      "fix_suggestion": "f"                                          *)
(***************************************************************************)
MemberTokens == {"V1", "V0", "N1", "N0", "S1", "S0", "R", "E", "F"}

TokenKey(tok) ==
    CASE tok \in {"V1", "V0"} -> "valid"
      [] tok \in {"N1", "N0"} -> "need_regenerate"
      [] tok \in {"S1", "S0"} -> "semantic_valid"
      [] tok = "R" -> "semantic_reason"
      [] tok = "E" -> "sql_nl_explanation"
      [] tok = "F" -> "fix_suggestion"

TokenValue(tok) ==
    CASE tok \in {"V1", "N1", "S1"} -> TRUE
      [] tok \in {"V0", "N0", "S0"} -> FALSE
      [] tok = "R" -> "r"
      [] tok = "E" -> "e"
      [] tok = "F" -> "f"

\* The tokens a completion for run(user_query, sql) is drawn from, and those
\* for _semantic_alignment.
RunTokens == {"{", "}", "x", "#", "V1", "V0", "N1", "N0", "F"}
SemanticTokens == {"{", "}", "x", "#", "S1", "S0", "R", "E", "F"}

JsonTexts(tokens) == UNION { [1 .. k -> tokens] : k \in 0 .. MaxJsonLen }

\* What the gateway does when the judge asks it: it raises, or it delivers
\* the text as one string fragment or in one dictionary fragment, or nothing.
Gateways(tokens) ==
    { [raises |-> TRUE, frags |-> <<>>], [raises |-> FALSE, frags |-> <<>>] }
      \cup { [raises |-> FALSE, frags |-> <<StrFrag(t)>>] : t \in JsonTexts(tokens) }
      \cup { [raises |-> FALSE, frags |-> <<DictFrag(<<>>, t)>>] : t \in JsonTexts(tokens \ MemberTokens) }
      \cup { [raises |-> TRUE, frags |-> <<StrFrag(t)>>] : t \in JsonTexts({"{", "}"}) }

RECURSIVE ChunksAdd(_)
ChunksAdd(frags) ==
    IF frags = <<>> THEN <<>> ELSE ChunkAdds(Head(frags)) \o ChunksAdd(Tail(frags))

\* _get_last_text: as _get_last_llm_output, without the cut at the semicolon;
\* any exception gives "".
GetLastText(gw) ==
    IF gw.raises THEN <<>> ELSE LastNonEmptyPiece(ChunksAdd(gw.frags))

\* json.loads(s) gives a dict
IsObjectText(s) ==
    /\ Len(s) >= 2
    /\ s[1] = "{"
    /\ s[Len(s)] = "}"
    /\ \A i \in 2 .. Len(s) - 1 : s[i] \in MemberTokens

\* The dict json.loads gives: of a repeated key the last member counts.
ObjectOf(s) ==
    LET toks == SubSeq(s, 2, Len(s) - 1)
        keys == { TokenKey(toks[i]) : i \in 1 .. Len(toks) }
    IN [k \in keys |->
          TokenValue(toks[Max({ i \in 1 .. Len(toks) : TokenKey(toks[i]) = k })])]

EmptyObject == <<>>

\* The fence pattern: the text between an opening and a closing fence line.
Unfence(s) ==
    IF Len(s) >= 2 /\ s[1] = "#" /\ s[Len(s)] = "#"
    THEN Strip(SubSeq(s, 2, Len(s) - 1)) ELSE s

\* s[start : end + 1] for the first "{" and the last "}"
BraceSlice(s) ==
    LET opens == { i \in 1 .. Len(s) : s[i] = "{" }
        closes == { i \in 1 .. Len(s) : s[i] = "}" }
    IN IF opens # {} /\ closes # {} /\ Max(closes) > Min(opens)
       THEN SubSeq(s, Min(opens), Max(closes)) ELSE <<>>

ParseJson(text) ==
    LET s == Unfence(Strip(text))
    IN IF IsObjectText(s) THEN ObjectOf(s)
       ELSE IF IsObjectText(BraceSlice(s)) THEN ObjectOf(BraceSlice(s))
       ELSE EmptyObject

\* obj.get(key, default)
Get(obj, key, default) == IF key \in DOMAIN obj THEN obj[key] ELSE default

\* need_regenerate is read from the object; "not valid" is only its default.
NormalizeResult(obj) ==
    [valid |-> Get(obj, "valid", FALSE),
     reason |-> Get(obj, "reason", ""),
     fix_suggestion |-> Get(obj, "fix_suggestion", ""),
     need_regenerate |-> Get(obj, "need_regenerate", ~Get(obj, "valid", FALSE))]

\* The methods the class SqlJudgeAgent defines, and those of BaseAgent.  The
\* class body defines run twice; the name is bound to the second definition,
\* run(self, user_query, sql_generated).
SqlJudgeAgentMethods ==
    {"__init__", "_check_syntax", "_semantic_alignment", "_embedding_similarity",
     "_execution_check", "_normalize_identifier", "_tokenize", "_vectorize",
     "_cosine", "_parse_json", "_normalize_result", "_aggregate_errors",
     "_get_last_text", "run"}
BaseAgentMethods == {"__init__", "run"}

HasMethod(name) == name \in SqlJudgeAgentMethods \cup BaseAgentMethods

Raise(e) == [exception |-> e]
IsException(v) == "exception" \in DOMAIN v

\* The messages of the verdicts (Chinese in the source).
MsgNoLlm == "judge model not configured"
FixNoLlm == "check fields, grouping and order against the request, add LIMIT"
MsgNoJson == "judge model returned no valid JSON"
FixNoJson == "check GROUP BY/HAVING/WHERE, field existence, semantics"
MsgJudgeError == "judge exception"
FixJudgeError == "narrow the time range or state grouping and order, retry"
MsgNoLlmModule == "LLM judge module missing"
MsgSemanticNoReason == "semantic judgement failed: no specific reason"

RunNoLlmVerdict ==
    [valid |-> FALSE, reason |-> MsgNoLlm, fix_suggestion |-> FixNoLlm,
     need_regenerate |-> TRUE]

RunNoJsonVerdict ==
    [valid |-> FALSE, reason |-> MsgNoJson, fix_suggestion |-> FixNoJson,
     need_regenerate |-> TRUE]

\* Mutant: the handler lets the exception through to the caller.
RunOnError_reraise(e) == Raise(e)

\* `except Exception as e:` of run
RunOnError(e) ==
    [valid |-> FALSE, reason |-> <<MsgJudgeError, e>>, fix_suggestion |-> FixJudgeError,
     need_regenerate |-> TRUE]

\* The try block of run: the prompts are built by self._build_system_prompt()
\* and self._build_user_prompt(...); a method the object does not have raises
\* AttributeError.
RunTryBlock(gw) ==
    IF ~HasMethod("_build_system_prompt")
    THEN Raise("AttributeError: _build_system_prompt")
    ELSE IF ~HasMethod("_build_user_prompt")
    THEN Raise("AttributeError: _build_user_prompt")
    ELSE LET obj == ParseJson(GetLastText(gw))
         IN IF obj = EmptyObject THEN RunNoJsonVerdict ELSE NormalizeResult(obj)

\* run(self, user_query, sql_generated)
JudgeRunResult(llm, gw) ==
    IF ~llm THEN RunNoLlmVerdict
    ELSE IF IsException(RunTryBlock(gw))
         THEN RunOnError(RunTryBlock(gw).exception)
         ELSE RunTryBlock(gw)

\* _semantic_alignment(self, user_query, sql_generated, schema)
SemanticAlignment(llm, gw) ==
    IF ~llm
    THEN [valid |-> FALSE, reason |-> MsgNoLlm, fix_suggestion |-> "",
          sql_nl_explanation |-> "", errors |-> <<MsgNoLlmModule>>]
    ELSE LET data == ParseJson(GetLastText(gw))
             semantic_valid == Get(data, "semantic_valid", FALSE)
             semantic_reason == Get(data, "semantic_reason", "")
         IN [valid |-> semantic_valid,
             reason |-> semantic_reason,
             fix_suggestion |-> Get(data, "fix_suggestion", ""),
             sql_nl_explanation |-> Get(data, "sql_nl_explanation", ""),
             confidence |-> None,
             errors |-> IF semantic_valid THEN <<>>
                        ELSE IF semantic_reason # "" THEN <<semantic_reason>>
                        ELSE <<MsgSemanticNoReason>>]

(***************************************************************************)
(* One call of a method of the judge.                                      *)
(***************************************************************************)
\* judge_agent.run(user_query, sql)
JudgeRun ==
    /\ jcall = "start"
    /\ \E llm \in BOOLEAN, gw \in Gateways(RunTokens) :
         /\ jllm' = llm
         /\ jgw' = gw
         /\ jret' = JudgeRunResult(llm, gw)
    /\ jcall' = "run"
    /\ UNCHANGED notJudge

\* self._get_last_text(self.llm_assistant, messages)
JudgeGetLastText ==
    /\ jcall = "start"
    /\ \E gw \in Gateways(RunTokens) :
         /\ jgw' = gw
         /\ jret' = [text |-> GetLastText(gw)]
    /\ jllm' = TRUE
    /\ jcall' = "_get_last_text"
    /\ UNCHANGED notJudge

\* self._normalize_result(obj) for the object parsed from a completion
JudgeNormalizeResult ==
    /\ jcall = "start"
    /\ \E gw \in Gateways(RunTokens) :
         /\ ParseJson(GetLastText(gw)) # EmptyObject
         /\ jgw' = gw
         /\ jret' = NormalizeResult(ParseJson(GetLastText(gw)))
    /\ jllm' = TRUE
    /\ jcall' = "_normalize_result"
    /\ UNCHANGED notJudge

\* self._semantic_alignment(user_query, sql_generated, schema)
JudgeSemanticAlignment ==
    /\ jcall = "start"
    /\ \E llm \in BOOLEAN, gw \in Gateways(SemanticTokens) :
         /\ jllm' = llm
         /\ jgw' = gw
         /\ jret' = SemanticAlignment(llm, gw)
    /\ jcall' = "_semantic_alignment"
    /\ UNCHANGED notJudge

InitJudge ==
    /\ LoopIdle
    /\ GenIdle
    /\ AgentIdle
    /\ TextIdle
    /\ WebIdle
    /\ LayersIdle
    /\ EndIdle
    /\ jcall = "start"
    /\ jllm = FALSE
    /\ jgw = [raises |-> FALSE, frags |-> <<>>]
    /\ jret = NoReturn

NextJudge ==
    \/ JudgeRun
    \/ JudgeGetLastText
    \/ JudgeNormalizeResult
    \/ JudgeSemanticAlignment

SpecJudge == InitJudge /\ [][NextJudge]_vars


(***************************************************************************)
(* Nlp2SqlAgent.run: plan, schema, column profiles, then one generation    *)
(* (and, with execute, one execution) per sub-question.  A SQL text is     *)
(* EmptySql, the empty string, or SqlFor(q), the statement generated for   *)
(* the sub-question q.                                                     *)
(***************************************************************************)
MaxPlan == 2     \* sub-questions of a plan at most
MaxCols == 2     \* columns of the schema at most
MaxLimit == 2    \* the largest sampling limit

EmptySql == [sql_for |-> 0]
SqlFor(q) == [sql_for |-> q]
AgentHints == {None, "fixA"}
ExecuteArgs == {"omitted", "true", "false"}
ExecutorOutcomes == {"rows", "none", "raise"}

\* `execute: bool = True` in the signature of run
ExecuteDefault == "true"
Execute(arg) == IF arg = "omitted" THEN ExecuteDefault = "true" ELSE arg = "true"

\* A string that run returns
StrResult(s) == [str |-> s]
IsStr(v) == "str" \in DOMAIN v
IsDict(v) == "plan" \in DOMAIN v

\* `LIMIT {limit+1}`: the rows the probe gets of a column with d distinct
\* non-null values
RowsReturned(d, lim) == Min({d, lim + 1})

\* Mutant: a column with exactly `limit` values counts as unconstrained.
IsConstrained_strict(n, lim) == n < lim

\* constrained = len(vals) <= limit
IsConstrained(n, lim) == n <= lim

\* The body of `for col in columns` of _fetch_column_distincts: the executor
\* returns n rows (of dictionaries or of tuples: vals has one value per row),
\* returns None, or raises.
ColumnProfile(outcome, n, lim) ==
    IF outcome = "raise"
    THEN [distinct |-> <<>>, constrained |-> FALSE]
    ELSE LET vals == IF outcome = "rows" THEN [i \in 1 .. n |-> i] ELSE <<>>
         IN [distinct |-> SubSeq(vals, 1, Min({Len(vals), lim})),
             constrained |-> IsConstrained(Len(vals), lim)]

\* Mutant: every sub-question gets the hint.
HintFor_everyStep(i, n, hint) == hint

\* fix = fix_suggestion if idx == len(plan) - 1 else None
HintFor(i, n, hint) == IF i = n - 1 THEN hint ELSE None

\* Mutant: a failed execution leaves an error marker in the results.
StepResult_keepsError(outcome) == IF outcome = "rows" THEN "rows" ELSE "error"

\* lines 430-434: the rows, or None when the executor returned None or raised
StepResult(outcome) == IF outcome = "rows" THEN "rows" ELSE None

\* line 412
AgentReturnEarly ==
    /\ apc = "start"
    /\ ~user_args_ok
    /\ aret' = IF Execute(execute) THEN RunReturnEmpty ELSE StrResult(EmptySql)
    /\ apc' = "done"
    /\ UNCHANGED <<user_args_ok, fix_suggestion, execute, limit, plan, columns,
                   col_distincts, idx, sql_sequence, execution_results, last,
                   probes, hints, execs>>
    /\ UNCHANGED notAgent

\* lines 414-418: the plan and the schema
AgentPlanAndSchema ==
    /\ apc = "start"
    /\ user_args_ok
    /\ \E n \in 1 .. MaxPlan, c \in 0 .. MaxCols :
         /\ plan' = [i \in 1 .. n |-> i]
         /\ columns' = c
         /\ apc' = IF c = 0 THEN "steps" ELSE "profile"
    /\ UNCHANGED <<user_args_ok, fix_suggestion, execute, limit, col_distincts,
                   idx, sql_sequence, execution_results, last, aret, probes,
                   hints, execs>>
    /\ UNCHANGED notAgent

\* line 154: the executor raises in _fetch_schema; nothing in run catches it
AgentSchemaRaises ==
    /\ apc = "start"
    /\ user_args_ok
    /\ aret' = Raise("executor")
    /\ apc' = "done"
    /\ UNCHANGED <<user_args_ok, fix_suggestion, execute, limit, plan, columns,
                   col_distincts, idx, sql_sequence, execution_results, last,
                   probes, hints, execs>>
    /\ UNCHANGED notAgent

\* lines 183-197: the probe of the next column
AgentProbeColumn ==
    /\ apc = "profile"
    /\ \/ \E d \in 0 .. limit + 2 :
            /\ col_distincts' =
                 Append(col_distincts, ColumnProfile("rows", RowsReturned(d, limit), limit))
            /\ probes' = Append(probes, [outcome |-> "rows", distinct |-> d])
       \/ \E outcome \in ExecutorOutcomes \ {"rows"} :
            /\ col_distincts' = Append(col_distincts, ColumnProfile(outcome, 0, limit))
            /\ probes' = Append(probes, [outcome |-> outcome])
    /\ apc' = IF Len(col_distincts) + 1 = columns THEN "steps" ELSE "profile"
    /\ UNCHANGED <<user_args_ok, fix_suggestion, execute, limit, plan, columns,
                   idx, sql_sequence, execution_results, last, aret, hints, execs>>
    /\ UNCHANGED notAgent

\* lines 425-435: one pass of `for idx, sub_query in enumerate(plan)`
AgentStep ==
    /\ apc = "steps"
    /\ idx < Len(plan)
    /\ hints' = Append(hints, HintFor(idx, Len(plan), fix_suggestion))
    /\ sql_sequence' = Append(sql_sequence, SqlFor(plan[idx + 1]))
    /\ IF Execute(execute)
       THEN \E outcome \in ExecutorOutcomes :
              /\ execution_results' = Append(execution_results, StepResult(outcome))
              /\ execs' = Append(execs, outcome)
       ELSE UNCHANGED <<execution_results, execs>>
    /\ idx' = idx + 1
    /\ UNCHANGED <<apc, user_args_ok, fix_suggestion, execute, limit, plan,
                   columns, col_distincts, last, aret, probes>>
    /\ UNCHANGED notAgent

\* lines 437-450
AgentFinish ==
    /\ apc = "steps"
    /\ idx = Len(plan)
    /\ last' = [last_plan |-> plan, last_sql_sequence |-> sql_sequence,
                last_execution_results |->
                    IF Execute(execute) THEN execution_results ELSE None]
    /\ aret' = IF Execute(execute)
               THEN [plan |-> plan, sql_sequence |-> sql_sequence,
                     results |-> execution_results,
                     final_result |-> IF execution_results # <<>>
                                      THEN execution_results[Len(execution_results)]
                                      ELSE None]
               ELSE StrResult(IF sql_sequence # <<>>
                              THEN sql_sequence[Len(sql_sequence)] ELSE EmptySql)
    /\ apc' = "done"
    /\ UNCHANGED <<user_args_ok, fix_suggestion, execute, limit, plan, columns,
                   col_distincts, idx, sql_sequence, execution_results, probes,
                   hints, execs>>
    /\ UNCHANGED notAgent

InitAgent ==
    /\ LoopIdle
    /\ GenIdle
    /\ JudgeIdle
    /\ TextIdle
    /\ WebIdle
    /\ LayersIdle
    /\ EndIdle
    /\ apc = "start"
    /\ user_args_ok \in BOOLEAN
    /\ fix_suggestion \in AgentHints
    /\ execute \in ExecuteArgs
    /\ limit \in 0 .. MaxLimit
    /\ plan = <<>>
    /\ columns = 0
    /\ col_distincts = <<>>
    /\ idx = 0
    /\ sql_sequence = <<>>
    /\ execution_results = <<>>
    /\ last = [last_plan |-> None, last_sql_sequence |-> None,
               last_execution_results |-> None]
    /\ aret = NoReturn
    /\ probes = <<>>
    /\ hints = <<>>
    /\ execs = <<>>

NextAgent ==
    \/ AgentReturnEarly
    \/ AgentPlanAndSchema
    \/ AgentSchemaRaises
    \/ AgentProbeColumn
    \/ AgentStep
    \/ AgentFinish

SpecAgent == InitAgent /\ [][NextAgent]_vars


(***************************************************************************)
(* The assembly of a completion's text from its fragments, with the whole  *)
(* fragment sequence in the state: _get_last_llm_output of the generator   *)
(* and _get_last_text of the judge.                                        *)
(***************************************************************************)
TextChar == {"a", ";", " "}
TextTexts(n) == UNION { [1 .. k -> TextChar] : k \in 0 .. n }

\* The room a fragment takes in the budget of MaxTextLen.
RECURSIVE FragSize(_)
FragSize(f) ==
    IF f.kind = "str" THEN Len(f.text) + 1
    ELSE IF f.kind = "dict" THEN Len(f.content) + Len(f.reasoning_content) + 1
    ELSE IF f.kind = "list"
         THEN (IF f.items = <<>> THEN 1
               ELSE FragSize(Head(f.items)) + FragSize([f EXCEPT !.items = Tail(@)]))
         ELSE 1

RECURSIVE FragsSize(_)
FragsSize(frags) ==
    IF frags = <<>> THEN 0 ELSE FragSize(Head(frags)) + FragsSize(Tail(frags))

TextFragments(n) ==
    { f \in { StrFrag(t) : t \in TextTexts(n - 1) }
              \cup { DictFrag(c, r) : c \in TextTexts(n - 1), r \in TextTexts(1) }
              \cup { ListFrag(<<StrFrag(t), DictFrag(c, <<>>)>>) : t, c \in TextTexts(1) }
              \cup { OtherFrag } :
        FragSize(f) <= n }

\* _get_last_llm_output when the gateway delivered frags and ended
GetLastLlmOutput(frags) == TruncateAtLastSemicolon(LastNonEmptyPiece(ChunksAdd(frags)))

\* One pass of `for chunk in assistant.run(...)`
TextFragment ==
    /\ tpc = "deliver"
    /\ Len(tfrags) < MaxFragments
    /\ \E f \in TextFragments(MaxTextLen - FragsSize(tfrags)) : tfrags' = Append(tfrags, f)
    /\ UNCHANGED <<tpc, tcall, traised, tret>>
    /\ UNCHANGED notText

\* The generator's _get_last_llm_output returns after the last fragment.
TextGetLastLlmOutput ==
    /\ tpc = "deliver"
    /\ tcall' = "_get_last_llm_output"
    /\ tret' = GetLastLlmOutput(tfrags)
    /\ tpc' = "done"
    /\ UNCHANGED <<tfrags, traised>>
    /\ UNCHANGED notText

\* The judge's _get_last_text returns after the last fragment.
TextGetLastText ==
    /\ tpc = "deliver"
    /\ tcall' = "_get_last_text"
    /\ tret' = GetLastText([raises |-> FALSE, frags |-> tfrags])
    /\ tpc' = "done"
    /\ UNCHANGED <<tfrags, traised>>
    /\ UNCHANGED notText

\* The gateway raises: both functions return "".
TextGatewayRaises ==
    /\ tpc = "deliver"
    /\ \E fn \in {"_get_last_llm_output", "_get_last_text"} :
         /\ tcall' = fn
         /\ tret' = IF fn = "_get_last_text"
                    THEN GetLastText([raises |-> TRUE, frags |-> tfrags])
                    ELSE OnGatewayError.result
    /\ traised' = TRUE
    /\ tpc' = "done"
    /\ UNCHANGED tfrags
    /\ UNCHANGED notText

InitText ==
    /\ LoopIdle
    /\ GenIdle
    /\ JudgeIdle
    /\ AgentIdle
    /\ WebIdle
    /\ LayersIdle
    /\ EndIdle
    /\ tpc = "deliver"
    /\ tfrags = <<>>
    /\ tcall = None
    /\ traised = FALSE
    /\ tret = <<>>

NextText ==
    \/ TextFragment
    \/ TextGetLastLlmOutput
    \/ TextGetLastText
    \/ TextGatewayRaises

SpecText == InitText /\ [][NextText]_vars


(***************************************************************************)
(* Web requests served concurrently.  Each request runs                    *)
(* generate_sql_with_validation: it fetches the generator and the judge    *)
(* through get_text2sql_agent and get_sql_judge_agent, which cache them    *)
(* (and, through get_llm, the LLM factory) in module globals, and calls    *)
(* nlp_agent.run, which stores its plan in fields of the agent object.     *)
(* One step is one read or one write of a global or of an agent's fields.  *)
(***************************************************************************)
NumRequests == 2

Requests == 1 .. NumRequests
AgentGlobals == {"TEXT2SQL_SINGLETON", "SQL_JUDGE_SINGLETON"}
Globals == AgentGlobals \cup {"LLM_SINGLETON"}

\* The object request r made for the global g; NoObject is None.
Obj(g, r) == [global |-> g, made_by |-> r]
NoObject == Obj("None", 0)
Nlp2SqlAgents == { Obj("TEXT2SQL_SINGLETON", r) : r \in Requests }

At(r, fn, at) == wpc[r].fn = fn /\ wpc[r].at = at
Goto(r, fn, at) == wpc' = [wpc EXCEPT ![r] = [fn |-> fn, at |-> at]]
Reads(r, g) == gaccess' = gaccess \cup {[global |-> g, req |-> r, op |-> "read"]}
Writes(r, g) == gaccess' = gaccess \cup {[global |-> g, req |-> r, op |-> "write"]}

\* The function a request enters after the getter of g has returned.
AfterGetter(g) ==
    IF g = "TEXT2SQL_SINGLETON" THEN [fn |-> "SQL_JUDGE_SINGLETON", at |-> "test"]
    ELSE [fn |-> "run", at |-> "call"]

\* `if TEXT2SQL_SINGLETON is None:` / `if SQL_JUDGE_SINGLETON is None:`
WebTestSingleton ==
    \E r \in Requests, g \in AgentGlobals :
        /\ At(r, g, "test")
        /\ Reads(r, g)
        /\ Goto(r, g, IF SINGLETON[g] = NoObject THEN "llm_test" ELSE "ret")
        /\ UNCHANGED <<SINGLETON, wlocal, wruns, last_plan, faccess>>
        /\ UNCHANGED notWeb

\* get_llm(): `if LLM_SINGLETON is None:`
WebTestLlm ==
    \E r \in Requests, g \in AgentGlobals :
        /\ At(r, g, "llm_test")
        /\ Reads(r, "LLM_SINGLETON")
        /\ Goto(r, g, IF SINGLETON["LLM_SINGLETON"] = NoObject THEN "llm_make" ELSE "llm_ret")
        /\ UNCHANGED <<SINGLETON, wlocal, wruns, last_plan, faccess>>
        /\ UNCHANGED notWeb

\* get_llm(): `LLM_SINGLETON = create_llm()`
WebMakeLlm ==
    \E r \in Requests, g \in AgentGlobals :
        /\ At(r, g, "llm_make")
        /\ SINGLETON' = [SINGLETON EXCEPT !["LLM_SINGLETON"] = Obj("LLM_SINGLETON", r)]
        /\ Writes(r, "LLM_SINGLETON")
        /\ Goto(r, g, "llm_ret")
        /\ UNCHANGED <<wlocal, wruns, last_plan, faccess>>
        /\ UNCHANGED notWeb

\* get_llm(): `return LLM_SINGLETON`
WebReturnLlm ==
    \E r \in Requests, g \in AgentGlobals :
        /\ At(r, g, "llm_ret")
        /\ Reads(r, "LLM_SINGLETON")
        /\ Goto(r, g, "make")
        /\ UNCHANGED <<SINGLETON, wlocal, wruns, last_plan, faccess>>
        /\ UNCHANGED notWeb

\* `TEXT2SQL_SINGLETON = get_llm().text_to_sql_agent()` and the judge's like
WebMakeSingleton ==
    \E r \in Requests, g \in AgentGlobals :
        /\ At(r, g, "make")
        /\ SINGLETON' = [SINGLETON EXCEPT ![g] = Obj(g, r)]
        /\ Writes(r, g)
        /\ Goto(r, g, "ret")
        /\ UNCHANGED <<wlocal, wruns, last_plan, faccess>>
        /\ UNCHANGED notWeb

\* `return TEXT2SQL_SINGLETON`: the caller's nlp_agent / judge_agent
WebReturnSingleton ==
    \E r \in Requests, g \in AgentGlobals :
        /\ At(r, g, "ret")
        /\ Reads(r, g)
        /\ wlocal' = [wlocal EXCEPT ![r][g] = SINGLETON[g]]
        /\ wpc' = [wpc EXCEPT ![r] = AfterGetter(g)]
        /\ UNCHANGED <<SINGLETON, wruns, last_plan, faccess>>
        /\ UNCHANGED notWeb

\* nlp_agent.run: lines 437-439 store the plan, the SQL and the results of
\* this call in the agent object
WebAgentRun ==
    \E r \in Requests :
        /\ At(r, "run", "call")
        /\ wruns[r] < MaxRounds + 1
        /\ wruns' = [wruns EXCEPT ![r] = @ + 1]
        /\ last_plan' = [last_plan EXCEPT ![wlocal[r]["TEXT2SQL_SINGLETON"]] = r]
        /\ faccess' = faccess \cup
              {[agent |-> wlocal[r]["TEXT2SQL_SINGLETON"], req |-> r, op |-> "write"]}
        /\ UNCHANGED <<SINGLETON, wpc, wlocal, gaccess>>
        /\ UNCHANGED notWeb

\* generate_sql_with_validation returns: a verdict accepted the candidate
\* of one of the first three calls, or the fourth call used up the budget
WebLoopReturn ==
    \E r \in Requests :
        /\ At(r, "run", "call")
        /\ wruns[r] >= 1
        /\ Goto(r, "done", "done")
        /\ UNCHANGED <<SINGLETON, wlocal, wruns, last_plan, gaccess, faccess>>
        /\ UNCHANGED notWeb

InitWeb ==
    /\ LoopIdle
    /\ GenIdle
    /\ JudgeIdle
    /\ AgentIdle
    /\ TextIdle
    /\ LayersIdle
    /\ EndIdle
    /\ SINGLETON = [g \in Globals |-> NoObject]
    /\ wpc = [r \in Requests |-> [fn |-> "TEXT2SQL_SINGLETON", at |-> "test"]]
    /\ wlocal = [r \in Requests |-> [g \in AgentGlobals |-> NoObject]]
    /\ wruns = [r \in Requests |-> 0]
    /\ last_plan = [a \in Nlp2SqlAgents |-> 0]
    /\ gaccess = {}
    /\ faccess = {}

NextWeb ==
    \/ WebTestSingleton
    \/ WebTestLlm
    \/ WebMakeLlm
    \/ WebReturnLlm
    \/ WebMakeSingleton
    \/ WebReturnSingleton
    \/ WebAgentRun
    \/ WebLoopReturn

SpecWeb == InitWeb /\ [][NextWeb]_vars


(***************************************************************************)
(* The layered definition of SqlJudgeAgent.run (lines 401-481) and         *)
(* _execution_check, one call.  A statement is a sequence over SqlChar:    *)
(* "a" is a word, "L" the keyword LIMIT in any case, " " a blank, "n" a    *)
(* line break; in the statements sent to the executor "E" is the keyword   *)
(* EXPLAIN and "0" the number 0.                                           *)
(***************************************************************************)
MaxSqlLen == 5      \* characters of the statement _execution_check is called with at most
MaxRunSqlLen == 1   \* characters of the statement run is called with at most

SimilarityThreshold == 82   \* self.similarity_threshold, 0.82, in hundredths

SqlChar == {"a", "L", " ", "n", ";"}

SqlTextsUpTo(n) == UNION { [1 .. k -> SqlChar] : k \in 0 .. n }

\* clean_sql = (sql or "").strip().rstrip(";")
CleanSql(s) ==
    LET t == Strip(s)
        keep == { i \in 1 .. Len(t) : t[i] # ";" }
    IN IF keep = {} THEN <<>> ELSE SubSeq(t, 1, Max(keep))

\* explain_sql = f"EXPLAIN {clean_sql}"
ExplainSql(clean_sql) == <<"E", " ">> \o clean_sql

\* limit_sql: clean_sql, with " LIMIT 0" appended
\* if " limit " not in clean_sql.lower()
LimitSql(clean_sql) ==
    IF \E i \in 1 .. Len(clean_sql) - 2 : SubSeq(clean_sql, i, i + 2) = <<" ", "L", " ">>
    THEN clean_sql
    ELSE clean_sql \o <<" ", "L", " ", "0">>

\* _check_syntax(sql, schema): outcome is what parsing and the column and
\* grouping checks find in a statement that is not empty.
CheckSyntax(s, outcome) ==
    IF CleanSql(s) = <<>> THEN [valid |-> FALSE, errors |-> <<"SQL is empty">>]
    ELSE CASE outcome = "ok" -> [valid |-> TRUE, errors |-> <<>>]
           [] outcome = "parse_error" -> [valid |-> FALSE, errors |-> <<"SQL parse failed">>]
           [] outcome = "columns" ->
                [valid |-> FALSE, errors |-> <<"unknown column", "ungrouped column">>]

\* The dictionaries _semantic_alignment may return.
SemanticInfos ==
    { SemanticAlignment(llm, gw) : llm \in BOOLEAN, gw \in Gateways(SemanticTokens) }

\* _embedding_similarity(query, sql_nl), given whether each text has a token
\* and the cosine of the two token vectors in hundredths.
EmbeddingSimilarity(tokens_a, tokens_b, score) ==
    IF ~tokens_a \/ ~tokens_b
    THEN [valid |-> FALSE, score |-> 0, errors |-> <<"too little text for a similarity">>]
    ELSE IF score >= SimilarityThreshold
         THEN [valid |-> TRUE, score |-> score, errors |-> <<>>]
         ELSE [valid |-> FALSE, score |-> score, errors |-> <<"similarity too low">>]

\* _aggregate_errors(*items), items being pairs (info, default_msg)
RECURSIVE AggregateErrors(_)
AggregateErrors(items) ==
    IF items = <<>> THEN <<>>
    ELSE LET info == Head(items)[1]
             default_msg == Head(items)[2]
             errs == IF info.valid THEN <<>>
                     ELSE IF info.errors # <<>>
                          THEN SelectSeq(info.errors, LAMBDA e : e # "")
                          ELSE IF default_msg # "" THEN <<default_msg>> ELSE <<>>
         IN errs \o AggregateErrors(Tail(items))

\* Mutant: the executability layer does not count.
OverallValid_withoutExecution(sy, se, s2, em, ex) ==
    sy.valid /\ se.valid /\ s2.valid /\ em.valid

\* lines 435-441: valid
OverallValid(sy, se, s2, em, ex) ==
    sy.valid /\ se.valid /\ s2.valid /\ em.valid /\ ex.valid

\* Mutant: the first aggregated error comes before any layer's suggestion.
FixSuggestion_errorFirst(se, sy, ex, combined_errors) ==
    IF combined_errors # <<>> THEN combined_errors[1]
    ELSE Get(se, "fix_suggestion", "")

\* lines 444-451: fix_suggestion
FixSuggestion(se, sy, ex, combined_errors) ==
    LET items == <<se, sy, ex>>
        fix_candidates ==
            SelectSeq([i \in 1 .. 3 |-> Get(items[i], "fix_suggestion", "")],
                      LAMBDA f : f # "")
    IN IF fix_candidates # <<>> THEN fix_candidates[1]
       ELSE IF combined_errors # <<>> THEN combined_errors[1]
       ELSE ""

\* lines 427-469: the verdict aggregated from the five layers
LayeredRunResult(sy, se, s2, em, ex) ==
    LET combined_errors ==
            AggregateErrors(<< <<sy, "syntax check failed">>,
                               <<se, "semantic judgement failed">>,
                               <<s2, "SQL explanation missing">>,
                               <<em, "semantic similarity too low">>,
                               <<ex, "SQL cannot be executed">> >>)
        valid == OverallValid(sy, se, s2, em, ex)
    IN [valid |-> valid,
        errors |-> combined_errors,
        reason |-> IF combined_errors # <<>> THEN combined_errors[1] ELSE "SQL passed",
        fix_suggestion |-> FixSuggestion(se, sy, ex, combined_errors),
        sql_nl_explanation |-> se.sql_nl_explanation,
        semantic_similarity |-> em.score,
        need_regenerate |-> ~valid,
        details |-> [syntax |-> sy, semantic |-> se, sql2nl |-> s2,
                     embedding |-> em, execution |-> ex]]

\* line 416: syntax_info = self._check_syntax(sql_generated, schema)
RunCheckSyntax ==
    /\ lcall = "run"
    /\ lpc = "syntax"
    /\ \E outcome \in {"ok", "parse_error", "columns"} :
         syntax_info' = CheckSyntax(sql_generated, outcome)
    /\ lpc' = "semantic"
    /\ UNCHANGED <<lcall, sql_generated, db, semantic_info, sql2nl_info, embedding_info,
                   execution_info, xresult, xcalls, lret>>
    /\ UNCHANGED notLayer

\* lines 417-423: semantic_info, explanation and sql2nl_info
RunSemanticAlignment ==
    /\ lcall = "run"
    /\ lpc = "semantic"
    /\ \E info \in SemanticInfos :
         LET explanation == info.sql_nl_explanation IN
         /\ semantic_info' = info
         /\ sql2nl_info' =
              [valid |-> explanation # "",
               explanation |-> explanation,
               errors |-> IF explanation # "" THEN <<>> ELSE <<"no explanation of the SQL">>]
    /\ lpc' = "embedding"
    /\ UNCHANGED <<lcall, sql_generated, db, syntax_info, embedding_info, execution_info,
                   xresult, xcalls, lret>>
    /\ UNCHANGED notLayer

\* line 424: embedding_info = self._embedding_similarity(user_query, explanation or sql_generated)
RunEmbeddingSimilarity ==
    /\ lcall = "run"
    /\ lpc = "embedding"
    /\ \E query_tokens \in BOOLEAN, score \in {50, SimilarityThreshold} :
         LET explanation == semantic_info.sql_nl_explanation
             tokens_b == IF explanation # "" THEN TRUE
                         ELSE \E i \in 1 .. Len(sql_generated) : sql_generated[i] \in {"a", "L"}
         IN embedding_info' = EmbeddingSimilarity(query_tokens, tokens_b, score)
    /\ lpc' = "execution"
    /\ UNCHANGED <<lcall, sql_generated, db, syntax_info, semantic_info, sql2nl_info,
                   execution_info, xresult, xcalls, lret>>
    /\ UNCHANGED notLayer

\* `return info` of _execution_check, and line 425 when run called it
ExecutionCheckReturns(info) ==
    IF lcall = "run"
    THEN /\ execution_info' = info
         /\ lpc' = "aggregate"
         /\ lret' = lret
    ELSE /\ execution_info' = execution_info
         /\ lpc' = "done"
         /\ lret' = info

\* lines 274-297: the short circuits and the EXPLAIN attempt
ExecutionCheckExplain ==
    /\ lpc = "execution"
    /\ LET clean_sql == CleanSql(sql_generated) IN
       \/ /\ clean_sql = <<>>
          /\ ExecutionCheckReturns([valid |-> FALSE, method |-> "EXPLAIN",
                                    errors |-> <<"SQL is empty, no pre-check">>])
          /\ UNCHANGED <<xresult, xcalls>>
       \/ /\ clean_sql # <<>>
          /\ ~db
          /\ ExecutionCheckReturns([valid |-> FALSE, method |-> "EXPLAIN",
                                    errors |-> <<"no database connection for EXPLAIN">>])
          /\ UNCHANGED <<xresult, xcalls>>
       \/ /\ clean_sql # <<>>
          /\ db
          /\ \E outcome \in ExecutorOutcomes :
               /\ xcalls' = Append(xcalls, [sql |-> ExplainSql(clean_sql), outcome |-> outcome])
               /\ xresult' = IF outcome = "rows" THEN "rows" ELSE None
               /\ IF outcome = "rows"
                  THEN ExecutionCheckReturns([valid |-> TRUE, method |-> "EXPLAIN",
                                              errors |-> <<>>])
                  ELSE /\ lpc' = "probe"
                       /\ UNCHANGED <<execution_info, lret>>
    /\ UNCHANGED <<lcall, sql_generated, db, syntax_info, semantic_info, sql2nl_info,
                   embedding_info>>
    /\ UNCHANGED notLayer

\* lines 299-312: the LIMIT 0 attempt after a failed EXPLAIN
ExecutionCheckProbe ==
    /\ lpc = "probe"
    /\ \E outcome \in ExecutorOutcomes :
         /\ xcalls' = Append(xcalls, [sql |-> LimitSql(CleanSql(sql_generated)),
                                      outcome |-> outcome])
         /\ xresult' = IF outcome = "rows" THEN "rows" ELSE None
         /\ ExecutionCheckReturns(
              [valid |-> outcome = "rows", method |-> "LIMIT 0",
               errors |-> IF outcome = "rows" THEN <<>>
                          ELSE <<"EXPLAIN/LIMIT 0 failed, the SQL may not run">>])
    /\ UNCHANGED <<lcall, sql_generated, db, syntax_info, semantic_info, sql2nl_info,
                   embedding_info>>
    /\ UNCHANGED notLayer

\* lines 427-469: aggregate the layers and return the verdict
RunAggregate ==
    /\ lcall = "run"
    /\ lpc = "aggregate"
    /\ lret' = LayeredRunResult(syntax_info, semantic_info, sql2nl_info, embedding_info,
                                execution_info)
    /\ lpc' = "done"
    /\ UNCHANGED <<lcall, sql_generated, db, syntax_info, semantic_info, sql2nl_info,
                   embedding_info, execution_info, xresult, xcalls>>
    /\ UNCHANGED notLayer

InitLayers ==
    /\ LoopIdle
    /\ GenIdle
    /\ JudgeIdle
    /\ AgentIdle
    /\ TextIdle
    /\ WebIdle
    /\ EndIdle
    /\ lcall \in {"run", "_execution_check"}
    /\ lpc = IF lcall = "run" THEN "syntax" ELSE "execution"
    /\ sql_generated \in SqlTextsUpTo(IF lcall = "run" THEN MaxRunSqlLen ELSE MaxSqlLen)
    /\ db \in BOOLEAN
    /\ syntax_info = NoVerdict
    /\ semantic_info = NoVerdict
    /\ sql2nl_info = NoVerdict
    /\ embedding_info = NoVerdict
    /\ execution_info = NoVerdict
    /\ xresult = None
    /\ xcalls = <<>>
    /\ lret = NoReturn

NextLayers ==
    \/ RunCheckSyntax
    \/ RunSemanticAlignment
    \/ RunEmbeddingSimilarity
    \/ ExecutionCheckExplain
    \/ ExecutionCheckProbe
    \/ RunAggregate

SpecLayers == InitLayers /\ [][NextLayers]_vars


(***************************************************************************)
(* One request to an endpoint of the web front end (webapp.py:212-441) and *)
(* the DB object it creates (sql.py), followed by further calls of that    *)
(* object's methods.  DB.connection is None or "conn"; live counts the     *)
(* connections opened and not yet closed.                                  *)
(***************************************************************************)
MaxAfterCalls == 3   \* calls of the DB object's methods after the request returned at most

Endpoints ==
    {"api_chat", "api_databases", "api_tables", "api_generate_sql",
     "api_generate_sql_validated", "api_execute"}

\* Mutant: close() without its `finally`: when connection.close() raises,
\* the exception escapes and self.connection stays.
DbCall_closeWithoutFinally(op, at, arg, outcome) ==
    LET before == connection
        after == CASE op = "connect_to_database" -> IF outcome = "ok" THEN "conn" ELSE None
                   [] op = "close" -> IF outcome = "raise" THEN before ELSE None
                   [] OTHER -> before
        res == CASE op = "connect_to_database" -> IF outcome = "ok" THEN "True" ELSE "False"
                 [] op = "select_database" ->
                      IF before = None \/ outcome = "ok" THEN "True" ELSE "False"
                 [] op = "execute_query" ->
                      IF before # None /\ outcome = "rows" THEN "rows" ELSE None
                 [] op = "close" -> None
    IN /\ connection' = after
       /\ live' = CASE op = "connect_to_database" /\ outcome = "ok" -> live + 1
                    [] op = "close" /\ before # None /\ outcome # "raise" -> live - 1
                    [] OTHER -> live
       /\ dbcalls' = Append(dbcalls, [op |-> op, at |-> at, arg |-> arg, before |-> before,
                                      after |-> after, result |-> res, live |-> live',
                                      raised |-> (op = "close" /\ before # None
                                                  /\ outcome = "raise")])

\* One call of a method of DB (sql.py:22-78) at position at of the request;
\* outcome is what pymysql does: "ok", "rows", "none" (nothing returned) or
\* "raise".  Every method catches the exception and none lets it escape.
DbCall(op, at, arg, outcome) ==
    LET before == connection
        after == CASE op = "connect_to_database" -> IF outcome = "ok" THEN "conn" ELSE None
                   [] op = "close" -> None
                   [] OTHER -> before
        res == CASE op = "connect_to_database" -> IF outcome = "ok" THEN "True" ELSE "False"
                 [] op = "select_database" ->
                      IF before = None \/ outcome = "ok" THEN "True" ELSE "False"
                 [] op = "execute_query" ->
                      IF before # None /\ outcome = "rows" THEN "rows" ELSE None
                 [] op = "close" -> None
    IN /\ connection' = after
       /\ live' = CASE op = "connect_to_database" /\ outcome = "ok" -> live + 1
                    [] op = "close" /\ before # None -> live - 1
                    [] OTHER -> live
       /\ dbcalls' = Append(dbcalls, [op |-> op, at |-> at, arg |-> arg, before |-> before,
                                      after |-> after, result |-> res, live |-> live',
                                      raised |-> FALSE])

\* normalize_sql(generated) for a dictionary: its "sql" member, or the
\* dictionary dumped as JSON text.
NormalizeSql(generated) ==
    IF "sql" \in DOMAIN generated THEN generated.sql ELSE [json |-> generated]

\* The argument check, create_db() and connect_to_database() before `try`
EndpointConnect ==
    /\ epc = "start"
    /\ \E args_ok \in BOOLEAN, outcome \in {"ok", "raise"} :
         IF ~args_ok /\ endpoint # "api_databases"
         THEN /\ response' = "bad request"
              /\ epc' = "returned"
              /\ UNCHANGED <<connection, live, dbcalls>>
         ELSE /\ DbCall("connect_to_database", "start", None, outcome)
              /\ IF outcome = "ok"
                 THEN epc' = "try" /\ response' = response
                 ELSE epc' = "returned" /\ response' = "connect failed"
    /\ UNCHANGED <<endpoint, loop_res>>
    /\ UNCHANGED notEnd

\* select_database at the head of `try`: api_databases has none, api_chat
\* only with a db in the request
EndpointSelectDatabase ==
    /\ epc = "try"
    /\ \/ /\ endpoint \in {"api_databases", "api_chat"}
          /\ epc' = "body"
          /\ UNCHANGED <<connection, live, dbcalls, response>>
       \/ /\ endpoint # "api_databases"
          /\ \E outcome \in {"ok", "raise"} :
               /\ DbCall("select_database", "try", "db", outcome)
               /\ IF outcome = "ok"
                  THEN epc' = "body" /\ response' = response
                  ELSE epc' = "finally" /\ response' = "cannot switch"
    /\ UNCHANGED <<endpoint, loop_res>>
    /\ UNCHANGED notEnd

\* loop_res = generate_sql_with_validation(...) and, but in api_chat, the
\* response built from it
EndpointLoop ==
    /\ epc = "body"
    /\ endpoint \in {"api_chat", "api_generate_sql", "api_generate_sql_validated"}
    /\ \/ /\ response' = "error"
          /\ epc' = "finally"
          /\ loop_res' = loop_res
       \/ \E ok \in BOOLEAN,
             d \in { RunReturn(s, r) : s \in GenSql, r \in ExecResults } \cup {RunReturnEmpty} :
            /\ loop_res' = [returned |-> TRUE, ok |-> ok, sql |-> d]
            /\ IF endpoint = "api_chat"
               THEN epc' = "execute" /\ response' = response
               ELSE /\ epc' = "finally"
                    /\ response' = IF ok \/ endpoint = "api_generate_sql_validated"
                                   THEN "sql" ELSE "not generated"
    /\ UNCHANGED <<endpoint, connection, live, dbcalls>>
    /\ UNCHANGED notEnd

\* db.execute_query(...) and what follows it up to the return statement.
\* In api_chat the statement is normalize_sql(loop_res.get("sql") or ""):
\* the dictionary is never empty and its dump never the empty string, so
\* `if sql:` passes; json.dumps raises on rows that hold a value JSON has no
\* form for.
EndpointExecute ==
    /\ \/ endpoint = "api_chat" /\ epc = "execute"
       \/ endpoint \in {"api_execute", "api_databases", "api_tables"} /\ epc = "body"
    /\ \/ /\ endpoint = "api_chat"
          /\ loop_res.sql.final_result # None
          /\ response' = "error"
          /\ UNCHANGED <<connection, live, dbcalls>>
       \/ \E outcome \in ExecutorOutcomes, analysis_raises \in BOOLEAN :
            LET stmt == IF endpoint = "api_chat" THEN NormalizeSql(loop_res.sql)
                        ELSE "statement"
            IN /\ DbCall("execute_query", "body", stmt, outcome)
               /\ response' = IF outcome # "rows" THEN "no result"
                              ELSE IF analysis_raises THEN "error" ELSE "table"
    /\ epc' = "finally"
    /\ UNCHANGED <<endpoint, loop_res>>
    /\ UNCHANGED notEnd

\* finally: db.close()
EndpointFinally ==
    /\ epc = "finally"
    /\ \E outcome \in {"ok", "raise"} : DbCall("close", "finally", None, outcome)
    /\ epc' = "returned"
    /\ UNCHANGED <<endpoint, loop_res, response>>
    /\ UNCHANGED notEnd

\* close(), execute_query(sql) or connect_to_database() on the DB object
\* after the request
DbCallAfterReturn ==
    /\ epc \in {"returned", "after"}
    /\ Cardinality({ i \in 1 .. Len(dbcalls) : dbcalls[i].at = "after" }) < MaxAfterCalls
    /\ \/ \E outcome \in {"ok", "raise"} : DbCall("close", "after", None, outcome)
       \/ \E outcome \in {"ok", "raise"} : DbCall("connect_to_database", "after", None, outcome)
       \/ \E outcome \in ExecutorOutcomes : DbCall("execute_query", "after", "statement", outcome)
    /\ epc' = "after"
    /\ UNCHANGED <<endpoint, loop_res, response>>
    /\ UNCHANGED notEnd

InitEnd ==
    /\ LoopIdle
    /\ GenIdle
    /\ JudgeIdle
    /\ AgentIdle
    /\ TextIdle
    /\ WebIdle
    /\ LayersIdle
    /\ endpoint \in Endpoints
    /\ epc = "start"
    /\ connection = None
    /\ live = 0
    /\ loop_res = NoReturn
    /\ dbcalls = <<>>
    /\ response = None

NextEnd ==
    \/ EndpointConnect
    \/ EndpointSelectDatabase
    \/ EndpointLoop
    \/ EndpointExecute
    \/ EndpointFinally
    \/ DbCallAfterReturn

SpecEnd == InitEnd /\ [][NextEnd]_vars


(***************************************************************************)
(* Claims about generate_sql_with_validation, checked under Spec.          *)
(***************************************************************************)
LoopDone == pc = "done"

NoVerdictValid == \A i \in 1 .. Len(judgeCalls) : ~judgeCalls[i].verdict.valid

\* C1: for every sequence of generator outputs and judge verdicts the loop
\* makes at most 3 judge calls and always comes to its return (every state
\* before the return has a next step); the returned iterations list has
\* between 1 and 3 entries, and exactly 3 when no verdict was valid.
C1_LoopWithinBudget ==
    /\ Len(judgeCalls) <= 3
    /\ (~LoopDone => ENABLED Next)
    /\ (LoopDone => ret.returned)
    /\ ret.returned =>
         /\ Len(ret.iterations) >= 1
         /\ Len(ret.iterations) <= 3
         /\ (NoVerdictValid => Len(ret.iterations) = 3)

C1_Witness ==
    /\ ret.returned
    /\ NoVerdictValid
    /\ Len(ret.iterations) = 3

\* C2: a valid verdict in round k is the last judge call: with it the loop
\* has returned ok = true and the candidate judged in round k, and the
\* generator was called k times in all, so not again after the verdict.
C2_AcceptStopsLoop ==
    \A k \in 1 .. Len(judgeCalls) :
        judgeCalls[k].verdict.valid =>
            /\ k = Len(judgeCalls)
            /\ ret.returned
            /\ ret.ok
            /\ ret.sql = judgeCalls[k].sql
            /\ Len(genCalls) = k

C2_Witness ==
    /\ LoopDone
    /\ Len(judgeCalls) = 2
    /\ judgeCalls[2].verdict.valid
    /\ genCalls[1].out # genCalls[2].out

\* C3: in every returned result ok is true exactly when last_judge.valid is
\* true, and a result with ok = true carries the sql of its last iterations
\* entry.
C3_OkIffLastJudgeValid ==
    ret.returned =>
        /\ ret.ok = ret.last_judge.valid
        /\ ret.ok => ret.sql = ret.iterations[Len(ret.iterations)].sql

C3_Witness ==
    /\ ret.returned
    /\ ret.ok
    /\ Len(ret.iterations) = 3

\* C4: the returned iterations list has one entry per judge call, in call
\* order; entry i is the i-th verdict's fields plus the candidate passed to
\* that call; the returned sql is the candidate generated last.
C4_IterationsMirrorJudgeCalls ==
    ret.returned =>
        /\ Len(ret.iterations) = Len(judgeCalls)
        /\ \A i \in 1 .. Len(judgeCalls) :
             LET it == ret.iterations[i]
                 jr == judgeCalls[i].verdict
             IN /\ DOMAIN it = (DOMAIN jr) \cup {"sql"}
                /\ \A key \in DOMAIN jr : it[key] = jr[key]
                /\ it.sql = judgeCalls[i].sql
                /\ judgeCalls[i].sql = genCalls[i].out
        /\ ret.sql = genCalls[Len(genCalls)].out

C4_Witness ==
    /\ ret.returned
    /\ ~ret.ok
    /\ genCalls[1].out # genCalls[2].out
    /\ genCalls[3].out # genCalls[4].out
    /\ judgeCalls[1].verdict # judgeCalls[2].verdict

(***************************************************************************)
(* Claims about SqlJudgeAgent, checked under SpecJudge.                    *)
(***************************************************************************)
VerdictKeys == {"valid", "reason", "fix_suggestion", "need_regenerate"}

C6_InvalidVerdictHasErrors ==
    (jcall = "run" /\ ~jret.valid) =>
        /\ "errors" \in DOMAIN jret
        /\ Len(jret.errors) >= 1

\* C7: run never raises: whatever the LLM setting and the gateway do, it
\* returns a dictionary with the keys valid, reason, fix_suggestion and
\* need_regenerate; and _get_last_text turns a raising gateway into "".
C7_RunNeverRaises ==
    /\ jcall = "run" => (~IsException(jret) /\ VerdictKeys \subseteq DOMAIN jret)
    /\ (jcall = "_get_last_text" /\ jgw.raises) => jret = [text |-> <<>>]

C7_Witness ==
    /\ jcall = "run"
    /\ jllm
    /\ jgw.raises
    /\ VerdictKeys \subseteq DOMAIN jret
    /\ ~jret.valid

\* The completion is a text that holds no JSON object, not even between its
\* first "{" and its last "}".
Unparsable(text) ==
    /\ text # <<>>
    /\ ~IsObjectText(Unfence(Strip(text)))
    /\ ~IsObjectText(BraceSlice(Unfence(Strip(text))))

\* The messages that name a parsing problem of the completion.
ParsingReasons == {MsgNoJson}

\* C8: given a completion that is not parsable as a JSON object, the
\* semantic layer raises nothing and yields valid = false with an errors
\* entry that names a parsing problem.
C8_UnparsableNamesParsing ==
    (jcall = "_semantic_alignment" /\ jllm /\ Unparsable(GetLastText(jgw))) =>
        /\ ~IsException(jret)
        /\ ~jret.valid
        /\ \E i \in 1 .. Len(jret.errors) : jret.errors[i] \in ParsingReasons

(***************************************************************************)
(* Claims about the generator, checked under SpecGen.                      *)
(***************************************************************************)
GenDone == gpc = "done"

\* C9: when the gateway raises while its fragments are consumed, before the
\* first or after some, _get_last_llm_output returns the empty string, no
\* exception leaves _generate_sql_for_query, and the SQL it returns is empty.
C9_GatewayErrorGivesEmptySql ==
    graised =>
        /\ ~gescaped
        /\ gresult = <<>>
        /\ gpc \in {"post", "done"}
        /\ GenDone => gout = <<>>

C9_Witness ==
    /\ GenDone
    /\ graised
    /\ gn >= 1
    /\ Contains(sql_text, ";")
    /\ gout = <<>>

EndsWithExactlyOneSemicolon(t) ==
    /\ EndsWith(t, ";")
    /\ Len(t) >= 2 => t[Len(t) - 1] # ";"

\* C10: whatever text went through _postprocess_sql, the text ending in
\* several semicolons and the empty text of a failed generation included,
\* the output ends with exactly one ";".
C10_ExactlyOneTrailingSemicolon ==
    GenDone => EndsWithExactlyOneSemicolon(gout)

\* A reference to the table at position i of t is bare when no qualifier of
\* the target database stands before it.
BareAt(t, i) == t[i] = "T" /\ (i = 1 \/ t[i - 1] # "D")
QualifiedAt(t, i) == t[i] = "T" /\ i > 1 /\ t[i - 1] = "D"

\* The text with every bare reference qualified once and all else as it was.
RECURSIVE QualifyBareUpTo(_, _)
QualifyBareUpTo(t, n) ==
    IF n = 0 THEN <<>>
    ELSE QualifyBareUpTo(t, n - 1)
           \o (IF BareAt(t, n) THEN <<"D", "T">> ELSE <<t[n]>>)

WithSemicolon(t) == IF EndsWith(t, ";") THEN t ELSE t \o <<";">>

\* C11: of a text that refers to the bare table, _postprocess_sql qualifies
\* each bare reference exactly once and leaves every qualified reference as
\* it is, also when bare and qualified references stand in one statement.
C11_BareReferencesQualifiedOnce ==
    (GenDone /\ gresult # <<>>) =>
        gout = QualifyBareUpTo(WithSemicolon(gresult), Len(WithSemicolon(gresult)))

\* C12: _postprocess_sql changes nothing in a statement that ends in ";"
\* and refers to the qualified table; applied to its own output, or twice
\* to any piece of the completion, it gives what one application gives.
C12_PostprocessNoOpAndIdempotent ==
    /\ (GenDone /\ EndsWith(gresult, ";")
          /\ \E i \in 1 .. Len(gresult) : QualifiedAt(gresult, i)) => gout = gresult
    /\ GenDone => PostprocessSql(gout) = gout
    /\ \A k \in 1 .. Len(SplitOnDelim(sql_text)) :
         LET piece == SplitOnDelim(sql_text)[k]
         IN PostprocessSql(PostprocessSql(piece)) = PostprocessSql(piece)

C12_Witness ==
    /\ GenDone
    /\ EndsWith(gresult, ";")
    /\ \E i \in 1 .. Len(gresult) : QualifiedAt(gresult, i)
    /\ Len(gresult) >= 4
    /\ gout = gresult

(***************************************************************************)
(* Claims about Nlp2SqlAgent.run and _fetch_column_distincts, checked      *)
(* under SpecAgent.                                                        *)
(***************************************************************************)
AgentDone == apc = "done"
AgentReturned == AgentDone /\ ~IsException(aret)
ProbeFailed(i) == probes[i].outcome \in {"none", "raise"}

\* C13: for every column whose probe returned its rows and every limit L,
\* constrained is true when the column has at most L distinct non-null
\* values and false when it has L+1 or more; no distinct list, of any
\* column, is longer than L.
C13_ConstrainedAtBoundary ==
    \A i \in 1 .. Len(col_distincts) :
        /\ Len(col_distincts[i].distinct) <= limit
        /\ probes[i].outcome = "rows" =>
             /\ col_distincts[i].constrained = (probes[i].distinct <= limit)
             /\ Len(col_distincts[i].distinct) = Min({probes[i].distinct, limit})

C13_Witness ==
    /\ limit >= 1
    /\ Len(col_distincts) = 2
    /\ probes[1].outcome = "rows" /\ probes[1].distinct = limit
    /\ col_distincts[1].constrained
    /\ probes[2].outcome = "rows" /\ probes[2].distinct = limit + 1
    /\ ~col_distincts[2].constrained

\* C14: a column whose probe failed, the executor raising or returning
\* None, has the profile {distinct: [], constrained: False}; the columns
\* after it are probed all the same.
C14_FailedProbeUnconstrained ==
    /\ \A i \in 1 .. Len(col_distincts) :
         ProbeFailed(i) => col_distincts[i] = [distinct |-> <<>>, constrained |-> FALSE]
    /\ apc = "steps" => Len(col_distincts) = columns

\* C15: of the generations of one run only the one for the last
\* sub-question is given the caller's fix_suggestion; every earlier one is
\* given None.
C15_HintOnlyForLastStep ==
    /\ Len(hints) = idx
    /\ \A i \in 1 .. Len(hints) :
         hints[i] = IF i = Len(plan) THEN fix_suggestion ELSE None

C15_Witness ==
    /\ AgentReturned
    /\ Len(plan) >= 2
    /\ fix_suggestion # None
    /\ Len(hints) = Len(plan)
    /\ hints[Len(plan)] = fix_suggestion
    /\ hints[1] = None

\* C16: with execute = true a step whose execution failed has None at its
\* position of results and the steps after it are generated and executed;
\* the returned plan, sql_sequence and results have one length and
\* final_result is the last element of results.
C16_ExecutionFailureRecordedAsNull ==
    Execute(execute) =>
        /\ Len(execs) = idx /\ Len(execution_results) = idx /\ Len(sql_sequence) = idx
        /\ \A i \in 1 .. Len(execs) :
             execs[i] \in {"none", "raise"} => execution_results[i] = None
        /\ (apc = "steps" /\ idx < Len(plan)) => ENABLED AgentStep
        /\ (AgentReturned /\ user_args_ok) =>
             /\ idx = Len(plan)
             /\ aret.plan = plan
             /\ aret.results = execution_results
             /\ Len(aret.plan) = Len(aret.sql_sequence)
             /\ Len(aret.plan) = Len(aret.results)
             /\ aret.final_result = aret.results[Len(aret.results)]

C16_Witness ==
    /\ AgentReturned
    /\ execute = "true"
    /\ Len(plan) = 2
    /\ execs = <<"raise", "rows">>
    /\ aret.results = <<None, "rows">>
    /\ aret.final_result = "rows"
    /\ aret.sql_sequence = <<SqlFor(1), SqlFor(2)>>

\* C17: called without an execute argument run returns the final SQL as a
\* string; it returns the dictionary only to a caller that passes
\* execute = true.
C17_StringUnlessExecuteRequested ==
    AgentReturned =>
        /\ execute = "omitted" => IsStr(aret)
        /\ IsDict(aret) => execute = "true"


(***************************************************************************)
(* Claim about the assembly of a completion's text, checked under          *)
(* SpecText.                                                               *)
(***************************************************************************)
\* What one fragment delivers: a string its text, a dictionary its content
\* or else its reasoning_content, a list what its items deliver, in order.
RECURSIVE Delivered(_)
Delivered(frags) ==
    IF frags = <<>> THEN <<>>
    ELSE LET f == Head(frags)
             own == IF f.kind = "str" THEN <<f.text>>
                    ELSE IF f.kind = "dict"
                         THEN <<IF f.content # <<>> THEN f.content ELSE f.reasoning_content>>
                         ELSE IF f.kind = "list" THEN Delivered(f.items)
                         ELSE <<>>
         IN own \o Delivered(Tail(frags))

IsBlank(t) == \A i \in 1 .. Len(t) : t[i] = " "

\* The last delivered piece that is not blank, without the blanks around
\* it; the empty text when there is none.
LastPiece(frags) ==
    LET pieces == Delivered(frags)
        full == { i \in 1 .. Len(pieces) : ~IsBlank(pieces[i]) }
    IN IF full = {} THEN <<>> ELSE Strip(pieces[Max(full)])

\* C18: the assembled text is the last non-empty piece in arrival order (a
\* blank piece counts as empty); _get_last_llm_output returns it cut after
\* its last semicolon, so that nothing after the last ";" is kept.
C18_LastPieceCutAtSemicolon ==
    (tpc = "done" /\ ~traised) =>
        /\ tcall = "_get_last_text" => tret = LastPiece(tfrags)
        /\ tcall = "_get_last_llm_output" =>
             /\ Contains(LastPiece(tfrags), ";") =>
                  /\ EndsWith(tret, ";")
                  /\ Len(tret) <= Len(LastPiece(tfrags))
                  /\ tret = Strip(SubSeq(LastPiece(tfrags), 1, Len(tret)))
                  /\ ~Contains(SubSeq(LastPiece(tfrags), Len(tret) + 1,
                                      Len(LastPiece(tfrags))), ";")
             /\ ~Contains(LastPiece(tfrags), ";") => tret = LastPiece(tfrags)

C18_Witness ==
    /\ tpc = "done"
    /\ ~traised
    /\ tcall = "_get_last_llm_output"
    /\ Len(tfrags) = 3
    /\ tfrags[1].kind = "str" /\ tfrags[1].text = <<"a">>
    /\ tfrags[2].kind = "dict" /\ tfrags[2].content = <<>>
    /\ tfrags[2].reasoning_content = <<";">>
    /\ tfrags[3].kind = "str" /\ IsBlank(tfrags[3].text)
    /\ tret = <<";">>


(***************************************************************************)
(* Claim about concurrent web requests, checked under SpecWeb.             *)
(***************************************************************************)
\* C19: two requests share no mutable state: no module global is written by
\* one request and read or written by another, and the last_* fields of no
\* agent object are written by two requests.
C19_NoSharedMutableState ==
    /\ \A a, b \in gaccess :
         (a.global = b.global /\ a.req # b.req) => (a.op = "read" /\ b.op = "read")
    /\ \A a, b \in faccess : a.agent = b.agent => a.req = b.req


(***************************************************************************)
(* Claim about run(user_query, sql) with an LLM, checked under SpecJudge.  *)
(***************************************************************************)
\* C20: with an LLM configured and a completion that parses to a JSON
\* object whose valid member is true, run(user_query, sql) returns a
\* verdict with valid = true.
C20_ValidCompletionAccepted ==
    (/\ jcall = "run"
     /\ jllm
     /\ ~jgw.raises
     /\ Get(ParseJson(GetLastText(jgw)), "valid", FALSE) = TRUE) => jret.valid = TRUE



(***************************************************************************)
(* Further claims about generate_sql_with_validation, checked under Spec.  *)
(***************************************************************************)
\* C21: one call of the loop invokes the generator at most 3 times, and when
\* the loop has returned the generator was not invoked more often than the
\* judge.
C21_GeneratorWithinBudget ==
    /\ Len(genCalls) <= 3
    /\ (ret.returned => Len(genCalls) <= Len(judgeCalls))

\* The hint the generator is owed after the verdict v: its fix_suggestion,
\* the empty hint when it has none.
HintOf(v) ==
    IF "fix_suggestion" \in DOMAIN v /\ v.fix_suggestion \notin {None, ""}
    THEN v.fix_suggestion ELSE ""

\* C22: the first generator call receives no fix hint; every later call
\* receives the fix_suggestion of the verdict immediately before it (the
\* empty hint when that verdict has none), never that of an older round.
C22_HintOfPrecedingVerdict ==
    \A i \in 1 .. Len(genCalls) :
        genCalls[i].fix_suggestion =
            IF i = 1 THEN None ELSE HintOf(judgeCalls[i - 1].verdict)

C22_Witness ==
    /\ Len(genCalls) = 4
    /\ judgeCalls[1].verdict.fix_suggestion = "fixA"
    /\ judgeCalls[2].verdict.fix_suggestion = None
    /\ judgeCalls[3].verdict.fix_suggestion = "fixB"
    /\ genCalls[2].fix_suggestion = "fixA"
    /\ genCalls[3].fix_suggestion = ""
    /\ genCalls[4].fix_suggestion = "fixB"

\* C27: the sql of every returned result has been judged: it is the sql of
\* some entry of the returned iterations list, also when the budget is
\* exhausted.
C27_ReturnedSqlWasJudged ==
    ret.returned =>
        \E i \in 1 .. Len(ret.iterations) : ret.iterations[i].sql = ret.sql

\* C28: every statement the generator's calls have sent to the executor for
\* execution belongs to a candidate that a verdict accepted before.
C28_NothingExecutedBeforeAccepted ==
    \A s \in executed :
        \E k \in 1 .. Len(judgeCalls) :
            /\ judgeCalls[k].verdict.valid
            /\ judgeCalls[k].sql.sql_sequence = <<s>>



(***************************************************************************)
(* Claims about the layered run and _execution_check, checked under        *)
(* SpecLayers.                                                             *)
(***************************************************************************)
LayeredRunDone == lcall = "run" /\ lpc = "done"

LayerNames == {"syntax", "semantic", "sql2nl", "embedding", "execution"}

\* C23: the verdict of the layered run is valid exactly when every layer
\* that ran reports valid; whichever layers fail, all layers are evaluated
\* and recorded in details.
C23_ValidIffEveryLayerValid ==
    LayeredRunDone =>
        /\ DOMAIN lret.details = LayerNames
        /\ \A k \in LayerNames : "valid" \in DOMAIN lret.details[k]
        /\ lret.details.syntax = syntax_info
        /\ lret.details.semantic = semantic_info
        /\ lret.details.sql2nl = sql2nl_info
        /\ lret.details.embedding = embedding_info
        /\ lret.details.execution = execution_info
        /\ lret.valid = (\A k \in LayerNames : lret.details[k].valid)

C23_Witness ==
    /\ LayeredRunDone
    /\ ~syntax_info.valid
    /\ semantic_info.valid
    /\ sql2nl_info.valid
    /\ embedding_info.valid
    /\ ~execution_info.valid
    /\ Len(xcalls) = 2
    /\ ~lret.valid

\* The non-empty errors a failing layer reports.
FailingErrors(info) ==
    IF info.valid THEN <<>> ELSE SelectSeq(info.errors, LAMBDA e : e # "")

\* C24: an invalid verdict of the layered run has as errors the errors of
\* the failing layers in the order syntax, semantic, explanation presence,
\* executability, without empty strings, and as reason the first of them.
C24_ReasonAndErrorsInLayerOrder ==
    (LayeredRunDone /\ ~lret.valid) =>
        LET expected == FailingErrors(syntax_info) \o FailingErrors(semantic_info)
                          \o FailingErrors(sql2nl_info) \o FailingErrors(execution_info)
        IN /\ lret.errors = expected
           /\ expected # <<>>
           /\ lret.reason = expected[1]

\* C25: fix_suggestion of the layered run is the semantic layer's suggestion
\* when that is not empty, else the executability layer's when that is not
\* empty, else the first aggregated error; it is empty only when no layer
\* failed and the semantic layer gave no suggestion.
C25_FixSuggestionPreference ==
    LayeredRunDone =>
        LET semantic_fix == Get(semantic_info, "fix_suggestion", "")
            execution_fix == Get(execution_info, "fix_suggestion", "")
        IN /\ lret.fix_suggestion =
                IF semantic_fix # "" THEN semantic_fix
                ELSE IF execution_fix # "" THEN execution_fix
                ELSE IF lret.errors # <<>> THEN lret.errors[1]
                ELSE ""
           /\ lret.fix_suggestion = "" =>
                /\ \A k \in LayerNames : lret.details[k].valid
                /\ semantic_fix = ""

C25_Witness ==
    /\ LayeredRunDone
    /\ ~syntax_info.valid
    /\ semantic_info.fix_suggestion = "f"
    /\ lret.errors # <<>>
    /\ lret.fix_suggestion = "f"

\* The statement has a LIMIT clause: the keyword stands as a word of its own,
\* after a blank or a line break, and a blank or a line break and then a
\* word (the row count) follow it.
HasLimitClause(t) ==
    \E i \in 2 .. Len(t) - 2 :
        /\ t[i] = "L"
        /\ t[i - 1] \in {" ", "n"}
        /\ t[i + 1] \in {" ", "n"}
        /\ t[i + 2] = "a"

ExecutionCheckReturned == lpc \in {"aggregate", "done"}

ExecutionCheckInfo == IF lcall = "run" THEN execution_info ELSE lret

\* C26: _execution_check calls the executor at most twice: first with
\* EXPLAIN and the statement stripped of its semicolons, then, only if that
\* call raised or returned nothing, with the LIMIT 0 probe, which appends
\* LIMIT 0 only when the statement has no LIMIT clause; the layer is invalid
\* exactly when both attempts fail; with an empty statement or without an
\* executor it fails without a call.
C26_ExplainThenLimitProbe ==
    LET clean_sql == CleanSql(sql_generated) IN
    /\ Len(xcalls) <= 2
    /\ Len(xcalls) >= 1 => xcalls[1].sql = <<"E", " ">> \o clean_sql
    /\ Len(xcalls) = 2 =>
         /\ xcalls[1].outcome \in {"raise", "none"}
         /\ xcalls[2].sql = IF HasLimitClause(clean_sql) THEN clean_sql
                            ELSE clean_sql \o <<" ", "L", " ", "0">>
    /\ ExecutionCheckReturned =>
         IF clean_sql = <<>> \/ ~db
         THEN xcalls = <<>> /\ ~ExecutionCheckInfo.valid
         ELSE /\ Len(xcalls) >= 1
              /\ xcalls[1].outcome # "rows" => Len(xcalls) = 2
              /\ ExecutionCheckInfo.valid =
                   (\E k \in 1 .. Len(xcalls) : xcalls[k].outcome = "rows")



(***************************************************************************)
(* Claims about the endpoints and the DB object, checked under SpecEnd.    *)
(***************************************************************************)
\* C29: api_chat passes the statement it takes from the loop's result to
\* db.execute_query only when the loop reported ok = true.
C29_ChatExecutesOnlyAccepted ==
    endpoint = "api_chat" =>
        \A i \in 1 .. Len(dbcalls) :
            (dbcalls[i].op = "execute_query" /\ dbcalls[i].at = "body") => loop_res.ok

\* C30: when a request returns, the connection its endpoint opened is
\* closed, on every exit path; close() leaves connection = None and raises
\* nothing, close() on a closed object changes nothing, and execute_query on
\* a closed object returns None without raising.
C30_ConnectionClosedOnReturn ==
    /\ epc = "returned" => (connection = None /\ live = 0)
    /\ \A i \in 1 .. Len(dbcalls) :
         LET c == dbcalls[i] IN
         /\ ~c.raised
         /\ c.op = "close" => c.after = None
         /\ (c.op = "execute_query" /\ c.before = None) =>
              (c.result = None /\ c.after = None)
         /\ (c.op = "close" /\ c.before = None) =>
              c.live = (IF i = 1 THEN 0 ELSE dbcalls[i - 1].live)

C30_Witness ==
    /\ endpoint = "api_chat"
    /\ response = "error"
    /\ epc = "after"
    /\ Len(dbcalls) = 6
    /\ dbcalls[1].op = "connect_to_database" /\ dbcalls[1].result = "True"
    /\ dbcalls[2].op = "execute_query" /\ dbcalls[2].result = "rows"
    /\ dbcalls[3].op = "close" /\ dbcalls[3].before = "conn" /\ dbcalls[3].at = "finally"
    /\ dbcalls[4].op = "close" /\ dbcalls[4].before = None
    /\ dbcalls[5].op = "execute_query" /\ dbcalls[5].before = None
    /\ dbcalls[6].op = "connect_to_database" /\ dbcalls[6].result = "True"


=============================================================================
